---- MODULE Spec2Model ----
(***************************************************************************)
(* conda-project: a project directory is resolved into a CondaProject with *)
(* its environments, and lock / prepare / clean shell out to the external  *)
(* conda and conda-lock tools.                                             *)
(*                                                                         *)
(* A path is a sequence of components, <<"/", "proj", "environment.yml">>. *)
(* The file system fs is a function from the paths that exist to what is   *)
(* stored there; mtime counts the writes of the file at that path, so it   *)
(* grows whenever the file is written again.                               *)
(*                                                                         *)
(* conda_project/project.py holds the constructor's search for a bare      *)
(* environment file, default_env, prepare and clean; conda_project/utils.py*)
(* holds find_file.  The manifest, the environments mapping, the           *)
(* environment argument of the operations, lock and the external tools     *)
(* (conda_project/conda.py) have no code under src/: they follow spec.md.  *)
(***************************************************************************)
EXTENDS Integers, Sequences, FiniteSets, TLC

VARIABLES
    fs,             \* the file system: [path -> [kind, mtime, data]] over the paths that exist
    writes,         \* how many times a file was written so far
    pc,             \* "new" before CondaProject(directory), then "ready" or "failed"
    project,        \* the CondaProject object, NoProject before and after a failed construction
    last,           \* the last call: what it was given, whether it ran the tool, what it returned or raised
    spinner,        \* a Spinner, its thread, the main thread around its with block, and stdout
    search,         \* the last find_file call: its arguments and what it returned or raised
    environ,        \* os.environ: [key -> value] over the variables that are set
    blocks,         \* the env_variable blocks that are open, the innermost last
    outcome         \* how the last env_variable block was left

project_vars == <<fs, writes, pc, project, last>>
utils_vars == <<spinner, search, environ, blocks, outcome>>
vars == <<fs, writes, pc, project, last, spinner, search, environ, blocks, outcome>>

----------------------------------------------------------------------------
(* Bounds *)

MaxWrites == 2      \* writes to the file system in one behaviour
MaxEnvs == 2        \* environments a manifest declares
MaxFrames == 4      \* frames the spinner thread draws
MaxDepth == 2       \* env_variable blocks open at once

----------------------------------------------------------------------------
(* Paths *)

cwd == <<"/", "proj">>

DirectoryArgs == { <<".">>, <<"/", "proj", "sub", "..">> }

RECURSIVE normpath_from(_, _)
normpath_from(done, rest) ==
    IF rest = <<>> THEN done
    ELSE LET c == Head(rest) IN
         IF c = "." THEN normpath_from(done, Tail(rest))
         ELSE IF c = ".."
              THEN normpath_from(IF Len(done) > 1 THEN SubSeq(done, 1, Len(done) - 1) ELSE done,
                                 Tail(rest))
              ELSE normpath_from(Append(done, c), Tail(rest))

\* os.path.abspath: join a relative path to the working directory, then
\* collapse "." and ".." components.
abspath(path) ==
    IF Head(path) = "/" THEN normpath_from(<<"/">>, Tail(path))
    ELSE normpath_from(cwd, path)

\* os.path.normcase on POSIX returns the path unchanged (only Windows folds case).
normcase(path) == path

\* os.path.join(directory, name) / directory / name, for a relative second part
join(directory, rel) == directory \o rel

\* Path.resolve() of an absolute path without symbolic links
resolve(path) == abspath(path)

IsUnder(path, root) ==
    /\ Len(path) >= Len(root)
    /\ SubSeq(path, 1, Len(root)) = root

Exists(f, path) == path \in DOMAIN f

File(t, d) == [kind |-> "file", mtime |-> t, data |-> d]
Dir == [kind |-> "dir", mtime |-> 0, data |-> 0]

\* the modification time of path once it is written now: later than before
Now(f, path) == IF path \in DOMAIN f THEN f[path].mtime + 1 ELSE 1

\* f with path (over)written
Put(f, path, entry) ==
    [p \in (DOMAIN f) \cup {path} |-> IF p = path THEN entry ELSE f[p]]

\* f without path and everything below it
RemoveTree(f, root) ==
    [p \in {q \in DOMAIN f : ~IsUnder(q, root)} |-> f[p]]

----------------------------------------------------------------------------
(* Names *)

ENVIRONMENT_YAML_FILENAMES == <<"environment.yml", "environment.yaml">>

PROJECT_YAML_FILENAMES == <<"conda-project.yml", "conda-project.yaml">>

EnvNames == {"default", "bbb", "standard"}

\* the sources a manifest gives each environment, relative to the manifest
ManifestSources(name) ==
    CASE name = "bbb" -> << <<"env1.yml">> >>
      [] name = "default" -> << <<"env2.yml">>, <<"..", "extras.yml">> >>
      [] OTHER -> << <<"env.yml">> >>

IsInjective(s) == \A i, j \in 1..Len(s) : s[i] = s[j] => i = j

\* a manifest's environments mapping, as the sequence of its keys in declaration order
Manifests ==
    { m \in UNION { [1..n -> EnvNames] : n \in 1..MaxEnvs } : IsInjective(m) }

NoPath == <<>>
NoEnv == [name |-> "", sources |-> <<>>, lockfile |-> NoPath, prefix |-> NoPath]
NoProject == [directory |-> NoPath, condarc |-> NoPath, project_yaml_path |-> NoPath,
              environment_file |-> NoPath, environments |-> <<>>]

\* an exception: its type, the text of its message and the paths the message lists
NoError == [type |-> "none", text |-> "", paths |-> <<>>]
CondaProjectError(text, paths) == [type |-> "CondaProjectError", text |-> text, paths |-> paths]
TypeError(text) == [type |-> "TypeError", text |-> text, paths |-> <<>>]

\* an environment argument: absent, a name, an Environment, a value of another type
Argument(kind, name, env, value) == [kind |-> kind, name |-> name, env |-> env, value |-> value]
NoArgument == Argument("none", "", NoEnv, 0)

\* a call: its environment argument and the environment that resolved to, its
\* force flag, whether it ran the external tool, what it returned or raised
NoCall == [op |-> "none", argument |-> NoArgument, environment |-> NoEnv, force |-> FALSE,
           invoked |-> FALSE, ret |-> NoPath, error |-> NoError]

----------------------------------------------------------------------------
(* The project directories *)

RECURSIVE SeqToSet(_)
SeqToSet(s) == IF s = <<>> THEN {} ELSE {Head(s)} \cup SeqToSet(Tail(s))

RECURSIVE Flatten(_)
Flatten(ss) == IF ss = <<>> THEN <<>> ELSE Head(ss) \o Flatten(Tail(ss))

\* the absolute paths of the sources manifest m declares, in declaration order
DeclaredSources(m) ==
    Flatten([i \in 1..Len(m) |->
        [j \in 1..Len(ManifestSources(m[i])) |-> abspath(join(cwd, ManifestSources(m[i])[j]))]])

\* A project directory as the tests' project_directory_factory lays it out:
\* bare picks which of environment.yml / environment.yaml exist, variants which
\* of conda-project.yml / conda-project.yaml exist (each holding manifest m), and
\* missing names declared sources that were not written.
InitialFs(bare, variants, m, missing) ==
    LET barePaths == { join(cwd, <<ENVIRONMENT_YAML_FILENAMES[i]>>) : i \in bare }
        manifestPaths == { join(cwd, <<PROJECT_YAML_FILENAMES[i]>>) : i \in variants }
        sourcePaths == IF variants = {} THEN {} ELSE SeqToSet(DeclaredSources(m)) \ missing
    IN  [p \in barePaths \cup manifestPaths \cup sourcePaths |->
            IF p \in manifestPaths THEN File(0, m) ELSE File(0, 0)]

\* Spinner(prefix): the object after __init__, with the thread not started,
\* the main thread before the with statement and nothing on stdout.
Spinner(prefix) ==
    [prefix |-> prefix, event |-> FALSE, thread |-> "initial", at |-> "while",
     frames |-> 0, main |-> "with", raised |-> FALSE, stdout |-> <<>>]

NoSearch == [directory |-> NoPath, options |-> <<>>, ret |-> NoPath, error |-> NoError]

NoExit == [how |-> "none", key |-> "", before |-> <<>>]

\* nothing of utils.py is running
UtilsIdle ==
    /\ spinner = Spinner("Installing")
    /\ search = NoSearch
    /\ environ = <<>>
    /\ blocks = <<>>
    /\ outcome = NoExit

Init ==
    /\ UtilsIdle
    /\ \E bare \in SUBSET {1, 2}, variants \in SUBSET {1, 2}, m \in Manifests :
         \E missing \in {{}} \cup { {DeclaredSources(m)[Len(DeclaredSources(m))]} } :
            /\ variants = {} => (m = <<"default">> /\ missing = {})
            /\ (variants # {} /\ bare # {}) => (bare = {1} /\ Len(m) = 1)
            /\ variants = {2} => (bare = {} /\ Len(m) = 1)
            /\ fs = InitialFs(bare, variants, m, missing)
    /\ writes = 0
    /\ pc = "new"
    /\ project = NoProject
    /\ last = NoCall

----------------------------------------------------------------------------
(* conda_project/utils.py *)

\* find_file that takes one match for none
\* Path.exists(): the operating system resolves the path, relative to the
\* working directory and through its ".." components (no symbolic links; the
\* directories a ".." steps out of exist)
path_exists(f, path) == Exists(f, abspath(path))

\* find_file that lists the matches last first
find_file_last_first(f, directory, options) ==
    LET path(filename) == join(directory, <<filename>>)
        exists(filename) == path_exists(f, path(filename))
        names == SelectSeq(options, exists)
        found == [i \in 1..Len(names) |-> resolve(path(names[Len(names) + 1 - i]))]
    IN  IF Len(found) = 1 THEN [ret |-> found[1], error |-> NoError]
        ELSE IF Len(found) > 1
             THEN [ret |-> NoPath,
                   error |-> CondaProjectError(
                       "Multiple variants of the same file were found. Consider using one of them.",
                       found)]
             ELSE [ret |-> NoPath, error |-> NoError]

find_file_misses_one(f, directory, options) ==
    LET path(filename) == join(directory, <<filename>>)
        exists(filename) == path_exists(f, path(filename))
        names == SelectSeq(options, exists)
        found == [i \in 1..Len(names) |-> resolve(path(names[i]))]
    IN  IF Len(found) > 1
        THEN [ret |-> NoPath,
              error |-> CondaProjectError(
                  "Multiple variants of the same file were found. Consider using one of them.",
                  found)]
        ELSE [ret |-> NoPath, error |-> NoError]

\* find_file(directory, options): the one option that exists, None (NoPath)
\* when none does, CondaProjectError listing every match when several do.
find_file(f, directory, options) ==
    LET path(filename) == join(directory, <<filename>>)
        exists(filename) == path_exists(f, path(filename))
        names == SelectSeq(options, exists)
        found == [i \in 1..Len(names) |-> resolve(path(names[i]))]
    IN  IF Len(found) = 1 THEN [ret |-> found[1], error |-> NoError]
        ELSE IF Len(found) > 1
             THEN [ret |-> NoPath,
                   error |-> CondaProjectError(
                       "Multiple variants of the same file were found. Consider using one of them.",
                       found)]
             ELSE [ret |-> NoPath, error |-> NoError]

----------------------------------------------------------------------------
(* conda_project/project.py: construction *)

\* default_env with the 'envs' component left out
default_env_flat(self) == join(self.directory, <<"default">>)

\* default_env(self): os.path.join(self.directory, 'envs', 'default')
default_env(self) == join(self.directory, <<"envs", "default">>)

\* Environment.prefix: directory/envs/{name}; for the environment "default"
\* it is what default_env() returns
EnvironmentPrefix(self, name) ==
    IF name = "default" THEN default_env(self) ELSE join(self.directory, <<"envs", name>>)

\* Environment.lockfile: directory/{name}.conda-lock.yml
EnvironmentLockfile(self, name) == join(self.directory, <<name \o ".conda-lock.yml">>)

Environment(self, name, sources) ==
    [name |-> name,
     sources |-> sources,
     lockfile |-> EnvironmentLockfile(self, name),
     prefix |-> EnvironmentPrefix(self, name)]

\* the loop without its existence test: the first filename, whatever exists
environment_file_first_name(f, directory) ==
    LET exists(fn) == Exists(f, join(directory, <<fn>>))
        names == SelectSeq(ENVIRONMENT_YAML_FILENAMES, exists)
    IN  IF names = <<>> THEN NoPath ELSE join(directory, <<ENVIRONMENT_YAML_FILENAMES[1]>>)

\* the loop without its else: the last filename tried is kept when none exists
environment_file_no_else(f, directory) ==
    LET exists(fn) == Exists(f, join(directory, <<fn>>))
        names == SelectSeq(ENVIRONMENT_YAML_FILENAMES, exists)
    IN  IF names = <<>>
        THEN join(directory, <<ENVIRONMENT_YAML_FILENAMES[Len(ENVIRONMENT_YAML_FILENAMES)]>>)
        ELSE join(directory, <<Head(names)>>)

\* the for ... else loop of __init__: the first of ENVIRONMENT_YAML_FILENAMES
\* that exists in the directory, NoPath when the loop runs to its else
environment_file_of(f, directory) ==
    LET exists(fn) == Exists(f, join(directory, <<fn>>))
        names == SelectSeq(ENVIRONMENT_YAML_FILENAMES, exists)
    IN  IF names = <<>> THEN NoPath ELSE join(directory, <<Head(names)>>)

\* the environments a manifest file declares: names and sources in declaration
\* order, each source resolved against the manifest's directory
manifest_environments(self, f, manifest_path) ==
    LET m == f[manifest_path].data
        base == SubSeq(manifest_path, 1, Len(manifest_path) - 1)
    IN  [i \in 1..Len(m) |->
            Environment(self, m[i],
                [j \in 1..Len(ManifestSources(m[i])) |->
                    resolve(join(base, ManifestSources(m[i])[j]))])]

\* the sources of environments envs that do not exist, in order
missing_sources(f, envs) ==
    LET absent(p) == ~Exists(f, p)
    IN  SelectSeq(Flatten([i \in 1..Len(envs) |-> envs[i].sources]), absent)

\* CondaProject(directory): the object built, or the error raised
CondaProject(f, directory_in) ==
    LET directory == normcase(abspath(directory_in))
        self == [directory |-> directory,
                 condarc |-> join(directory, <<".condarc">>)]
        manifest == find_file(f, directory, PROJECT_YAML_FILENAMES)
        environment_file == environment_file_of(f, directory)
    IN  IF manifest.error # NoError
        THEN [project |-> NoProject, error |-> manifest.error]
        ELSE IF manifest.ret # NoPath
        THEN LET envs == manifest_environments(self, f, manifest.ret)
                 absent == missing_sources(f, envs)
             IN  IF absent # <<>>
                 THEN [project |-> NoProject,
                       error |-> CondaProjectError("source not found", absent)]
                 ELSE [project |-> [directory |-> self.directory,
                                    condarc |-> self.condarc,
                                    project_yaml_path |-> manifest.ret,
                                    environment_file |-> NoPath,
                                    environments |-> envs],
                       error |-> NoError]
        ELSE IF environment_file = NoPath
        THEN [project |-> NoProject,
              error |-> CondaProjectError(
                  "No Conda environment.yml or environment.yaml file was found in",
                  <<directory>>)]
        ELSE [project |-> [directory |-> self.directory,
                           condarc |-> self.condarc,
                           project_yaml_path |-> NoPath,
                           environment_file |-> environment_file,
                           environments |-> <<Environment(self, "default", <<environment_file>>)>>],
              error |-> NoError]

\* the step p = CondaProject(directory)
Construct(directory) ==
    /\ pc = "new"
    /\ LET r == CondaProject(fs, directory) IN
        /\ project' = r.project
        /\ pc' = IF r.error = NoError THEN "ready" ELSE "failed"
        /\ last' = [NoCall EXCEPT !.op = "init", !.error = r.error]
    /\ UNCHANGED <<fs, writes>>

\* project.environments, project.default_environment
environments(self) == self.environments
default_environment(self) == self.environments[1]

----------------------------------------------------------------------------
(* The environment argument of lock, prepare and clean *)

\* what a caller may pass as environment: nothing, a name, an Environment of
\* the project, or a value of another type (the tests pass 0)
Arguments(self) ==
    {NoArgument}
    \cup { Argument("name", n, NoEnv, 0) : n \in EnvNames }
    \cup { Argument("object", "", self.environments[i], 0) : i \in 1..Len(self.environments) }
    \cup {Argument("other", "", NoEnv, 0)}

\* lookup that takes a value of another type for no argument
lookup_accepts_any(self, a) ==
    CASE a.kind = "name" ->
            LET named == SelectSeq(self.environments, LAMBDA e : e.name = a.name)
            IN  IF named = <<>>
                THEN [env |-> NoEnv,
                      error |-> CondaProjectError("unknown environment " \o a.name, <<>>)]
                ELSE [env |-> named[1], error |-> NoError]
      [] a.kind = "object" -> [env |-> a.env, error |-> NoError]
      [] OTHER -> [env |-> self.environments[1], error |-> NoError]

\* lookup(project, identifier): the Environment an argument selects, or the error
lookup(self, a) ==
    CASE a.kind = "none" -> [env |-> default_environment(self), error |-> NoError]
      [] a.kind = "name" ->
            LET named == SelectSeq(self.environments, LAMBDA e : e.name = a.name)
            IN  IF named = <<>>
                THEN [env |-> NoEnv,
                      error |-> CondaProjectError("unknown environment " \o a.name, <<>>)]
                ELSE [env |-> named[1], error |-> NoError]
      [] a.kind = "object" -> [env |-> a.env, error |-> NoError]
      [] OTHER ->
            [env |-> NoEnv,
             error |-> TypeError("Environment " \o ToString(a.value)
                                 \o " is not of type str or Environment.")]

----------------------------------------------------------------------------
(* The external tools, by their contract *)

ExternalToolFailure == CondaProjectError("the external tool exited non-zero", <<>>)

history(prefix) == join(prefix, <<"conda-meta", "history">>)

\* conda env create -f ... -p prefix [--force]: on success the prefix
\* is (re)built with conda-meta/history in it; a failed run leaves the file
\* system as it was, or a prefix without the marker
conda_env_create(f, prefix) ==
    {[fs |-> Put(Put(RemoveTree(f, prefix), prefix, Dir), history(prefix),
                 File(Now(f, history(prefix)), 0)),
      error |-> NoError],
     [fs |-> f, error |-> ExternalToolFailure],
     [fs |-> Put(RemoveTree(f, prefix), prefix, Dir), error |-> ExternalToolFailure]}

\* conda env remove -p prefix: on success the prefix is gone
conda_env_remove(f, prefix) ==
    {[fs |-> RemoveTree(f, prefix), error |-> NoError],
     [fs |-> f, error |-> ExternalToolFailure]}

\* what a lock file written from sources records: the sources and their contents
locked_content(f, sources) ==
    [sources |-> sources, content |-> [i \in 1..Len(sources) |-> f[sources[i]].data]]

\* conda-lock over the sources: on success the lock file is written
conda_lock(f, lockfile, sources) ==
    {[fs |-> Put(f, lockfile, File(Now(f, lockfile), locked_content(f, sources))),
      error |-> NoError],
     [fs |-> f, error |-> ExternalToolFailure]}

----------------------------------------------------------------------------
(* conda_project/project.py: the operations *)

Call(op, a, env, force, invoked, ret, error) ==
    [op |-> op, argument |-> a, environment |-> env, force |-> force, invoked |-> invoked,
     ret |-> ret, error |-> error]

\* the environment argument did not resolve: the call raises, nothing else happens
Raise(op, a, force, error) ==
    /\ last' = Call(op, a, NoEnv, force, FALSE, NoPath, error)
    /\ UNCHANGED <<fs, writes>>

\* the test of prepare without "and not force"
already_prepared_ignores_force(f, prefix, force) ==
    Exists(f, join(prefix, <<"conda-meta", "history">>))

\* os.path.exists(conda_meta) and not force
already_prepared(f, prefix, force) ==
    LET conda_meta == join(prefix, <<"conda-meta", "history">>)
    IN  Exists(f, conda_meta) /\ ~force

\* prepare that creates default_env() whatever environment was asked for
prepare_always_default(environment, force) ==
    /\ pc = "ready"
    /\ LET r == lookup(project, environment) IN
        IF r.error # NoError THEN Raise("prepare", environment, force, r.error)
        ELSE
            LET prefix == default_env(project)
            IN  IF already_prepared(fs, prefix, force)
                THEN /\ last' = Call("prepare", environment, r.env, force, FALSE, prefix, NoError)
                     /\ UNCHANGED <<fs, writes>>
                ELSE /\ writes < MaxWrites
                     /\ writes' = writes + 1
                     /\ \E res \in conda_env_create(fs, prefix) :
                            /\ fs' = res.fs
                            /\ last' = Call("prepare", environment, r.env, force, TRUE,
                                            IF res.error = NoError THEN prefix ELSE NoPath,
                                            res.error)
    /\ UNCHANGED <<pc, project>>

\* prepare(environment, force): the prefix, created unless conda-meta/history
\* is already there and force is not set
prepare(environment, force) ==
    /\ pc = "ready"
    /\ LET r == lookup(project, environment) IN
        IF r.error # NoError THEN Raise("prepare", environment, force, r.error)
        ELSE
            LET prefix == r.env.prefix
            IN  IF already_prepared(fs, prefix, force)
                THEN /\ last' = Call("prepare", environment, r.env, force, FALSE, prefix, NoError)
                     /\ UNCHANGED <<fs, writes>>
                ELSE /\ writes < MaxWrites
                     /\ writes' = writes + 1
                     /\ \E res \in conda_env_create(fs, prefix) :
                            /\ fs' = res.fs
                            /\ last' = Call("prepare", environment, r.env, force, TRUE,
                                            IF res.error = NoError THEN prefix ELSE NoPath,
                                            res.error)
    /\ UNCHANGED <<pc, project>>

\* clean that removes directory/env/{name} for directory/envs/{name}
clean_misspelt_prefix(environment) ==
    /\ pc = "ready"
    /\ LET r == lookup(project, environment) IN
        IF r.error # NoError THEN Raise("clean", environment, FALSE, r.error)
        ELSE
            /\ \E res \in conda_env_remove(fs, join(project.directory, <<"env", r.env.name>>)) :
                    /\ fs' = res.fs
                    /\ last' = Call("clean", environment, r.env, FALSE, TRUE, NoPath, res.error)
            /\ UNCHANGED writes
    /\ UNCHANGED <<pc, project>>

\* clean(environment): conda env remove on the prefix
clean(environment) ==
    /\ pc = "ready"
    /\ LET r == lookup(project, environment) IN
        IF r.error # NoError THEN Raise("clean", environment, FALSE, r.error)
        ELSE
            /\ \E res \in conda_env_remove(fs, r.env.prefix) :
                    /\ fs' = res.fs
                    /\ last' = Call("clean", environment, r.env, FALSE, TRUE, NoPath, res.error)
            /\ UNCHANGED writes
    /\ UNCHANGED <<pc, project>>

\* lock that skips an existing lock file whatever force says
lock_ignores_force(environment, force) ==
    /\ pc = "ready"
    /\ LET r == lookup(project, environment) IN
        IF r.error # NoError THEN Raise("lock", environment, force, r.error)
        ELSE
            IF Exists(fs, r.env.lockfile)
            THEN /\ last' = Call("lock", environment, r.env, force, FALSE, NoPath, NoError)
                 /\ UNCHANGED <<fs, writes>>
            ELSE /\ writes < MaxWrites
                 /\ writes' = writes + 1
                 /\ \E res \in conda_lock(fs, r.env.lockfile, r.env.sources) :
                        /\ fs' = res.fs
                        /\ last' = Call("lock", environment, r.env, force, TRUE, NoPath, res.error)
    /\ UNCHANGED <<pc, project>>

\* lock(environment, force): the lock file, written unless it is already
\* there and force is not set
lock(environment, force) ==
    /\ pc = "ready"
    /\ LET r == lookup(project, environment) IN
        IF r.error # NoError THEN Raise("lock", environment, force, r.error)
        ELSE
            IF Exists(fs, r.env.lockfile) /\ ~force
            THEN /\ last' = Call("lock", environment, r.env, force, FALSE, NoPath, NoError)
                 /\ UNCHANGED <<fs, writes>>
            ELSE /\ writes < MaxWrites
                 /\ writes' = writes + 1
                 /\ \E res \in conda_lock(fs, r.env.lockfile, r.env.sources) :
                        /\ fs' = res.fs
                        /\ last' = Call("lock", environment, r.env, force, TRUE, NoPath, res.error)
    /\ UNCHANGED <<pc, project>>

\* the user rewrites a source file of an environment with new dependencies
EditSource(path) ==
    /\ pc = "ready"
    /\ writes < MaxWrites
    /\ writes' = writes + 1
    /\ fs' = Put(fs, path, File(Now(fs, path), fs[path].data + 1))
    /\ last' = [NoCall EXCEPT !.op = "edit"]
    /\ UNCHANGED <<pc, project>>

\* what callers try to assign to: an item of Environment.sources, an item of
\* project.environments, an attribute of project.environments
AssignTargets == {"sources[0] =", "environments[key] =", "environments.key ="}

\* the assignments the tests try: the target and the key
AssignAttempts ==
    { <<"sources[0] =", "default">>, <<"environments[key] =", "new">>,
      <<"environments[key] =", "default">>, <<"environments.key =", "default">> }

\* assignment on containers that are mutable: the Environment under key is replaced or added
assign_in_place(self, target, key) ==
    LET env == Environment(self, key, <<>>)
        kept == SelectSeq(self.environments, LAMBDA e : e.name # key)
    IN  [project |-> [self EXCEPT !.environments =
                        IF target = "sources[0] ="
                        THEN [i \in 1..Len(@) |-> IF i = 1 THEN [@[i] EXCEPT !.sources = <<>>] ELSE @[i]]
                        ELSE Append(kept, env)],
         error |-> NoError]

\* an assignment to the environments mapping or to a sources sequence: both
\* are immutable, the assignment raises TypeError and changes nothing
assign(self, target, key) ==
    [project |-> self, error |-> TypeError("object does not support assignment")]

\* the step of a caller that tries such an assignment
Assign(target, key) ==
    /\ pc = "ready"
    /\ LET r == assign(project, target, key) IN
        /\ project' = r.project
        /\ last' = [NoCall EXCEPT !.op = target, !.error = r.error]
    /\ UNCHANGED <<fs, writes, pc>>

AllSources(self) ==
    SeqToSet(Flatten([i \in 1..Len(self.environments) |-> self.environments[i].sources]))

Next ==
    \/ \E directory \in DirectoryArgs : Construct(directory) /\ UNCHANGED utils_vars
    \/ \E a \in Arguments(project), force \in BOOLEAN : prepare(a, force) /\ UNCHANGED utils_vars
    \/ \E a \in Arguments(project) : clean(a) /\ UNCHANGED utils_vars
    \/ \E a \in Arguments(project), force \in BOOLEAN : lock(a, force) /\ UNCHANGED utils_vars
    \/ \E path \in AllSources(project) : EditSource(path) /\ UNCHANGED utils_vars
    \/ \E attempt \in AssignAttempts : Assign(attempt[1], attempt[2]) /\ UNCHANGED utils_vars

Spec == Init /\ [][Next]_vars

----------------------------------------------------------------------------
(* conda_project/utils.py: Spinner *)
(* The main thread runs "with Spinner(prefix): body"; the spinner thread   *)
(* runs _spin.  Every write to sys.stdout is one step, so the two threads  *)
(* interleave between any two writes.  stdout is the sequence of writes;   *)
(* "CR" stands for "\r" and "ESC[K" for "\033[K".                          *)

\* itertools.cycle over the six frames, named by their place in the cycle
SpinnerFrames == <<"f1", "f2", "f3", "f4", "f5", "f6">>

\* the n-th value of next(spinner), counting from 0
next_frame(n) == SpinnerFrames[(n % Len(SpinnerFrames)) + 1]

FrameLine(prefix, n) == prefix \o ": " \o next_frame(n) \o " "

DoneLine(prefix) == prefix \o ": done\n"

\* the project is not touched
ProjectIdle ==
    /\ fs = InitialFs({1}, {}, <<"default">>, {})
    /\ writes = 0
    /\ pc = "new"
    /\ project = NoProject
    /\ last = NoCall

SpinnerInit ==
    /\ ProjectIdle
    /\ UtilsIdle

\* __enter__: start() starts the thread
start ==
    /\ spinner.main = "with"
    /\ spinner' = [spinner EXCEPT !.thread = "started", !.main = "body"]

\* the body of the with statement ends, by returning or by raising; either
\* way the with statement calls __exit__, which calls stop()
body(how) ==
    /\ spinner.main = "body"
    /\ spinner' = [spinner EXCEPT !.main = "stop", !.raised = (how = "raised")]

\* stop(): self._event.set()
stop_set ==
    /\ spinner.main = "stop"
    /\ spinner' = [spinner EXCEPT !.event = TRUE, !.main = "join"]

\* a join that does not wait
join_returns_at_once(self) == TRUE

\* Thread.join() returns once the thread has terminated
thread_join(self) == self.thread = "terminated"

\* stop(): self._thread.join(), then the three writes and the flush; __exit__
\* returns None, so an exception of the body propagates after it
stop_join ==
    /\ spinner.main = "join"
    /\ thread_join(spinner)
    /\ spinner' = [spinner EXCEPT
                      !.stdout = @ \o <<"CR", "ESC[K", DoneLine(spinner.prefix)>>,
                      !.main = "exited"]

\* _spin: the test of the while loop; the thread ends when the event is set.
\* A thread that has drawn MaxFrames frames sleeps until the event is set.
spin_test ==
    /\ spinner.thread = "started"
    /\ spinner.at = "while"
    /\ IF spinner.event
       THEN spinner' = [spinner EXCEPT !.thread = "terminated"]
       ELSE /\ spinner.frames < MaxFrames
            /\ spinner' = [spinner EXCEPT !.at = "CR"]

\* _spin: one of the three writes of the loop body
spin_write ==
    /\ spinner.thread = "started"
    /\ \/ /\ spinner.at = "CR"
          /\ spinner' = [spinner EXCEPT !.stdout = Append(@, "CR"), !.at = "ESC[K"]
       \/ /\ spinner.at = "ESC[K"
          /\ spinner' = [spinner EXCEPT !.stdout = Append(@, "ESC[K"), !.at = "frame"]
       \/ /\ spinner.at = "frame"
          /\ spinner' = [spinner EXCEPT
                            !.stdout = Append(@, FrameLine(spinner.prefix, spinner.frames)),
                            !.frames = @ + 1,
                            !.at = "sleep"]

\* _spin: flush and time.sleep(0.10), then back to the test
spin_sleep ==
    /\ spinner.thread = "started"
    /\ spinner.at = "sleep"
    /\ spinner' = [spinner EXCEPT !.at = "while"]

SpinnerNext ==
    \/ start /\ UNCHANGED <<project_vars, search, environ, blocks, outcome>>
    \/ \E how \in {"returned", "raised"} :
          body(how) /\ UNCHANGED <<project_vars, search, environ, blocks, outcome>>
    \/ stop_set /\ UNCHANGED <<project_vars, search, environ, blocks, outcome>>
    \/ stop_join /\ UNCHANGED <<project_vars, search, environ, blocks, outcome>>
    \/ spin_test /\ UNCHANGED <<project_vars, search, environ, blocks, outcome>>
    \/ spin_write /\ UNCHANGED <<project_vars, search, environ, blocks, outcome>>
    \/ spin_sleep /\ UNCHANGED <<project_vars, search, environ, blocks, outcome>>

SpinnerSpec == SpinnerInit /\ [][SpinnerNext]_vars

----------------------------------------------------------------------------
(* conda_project/utils.py: find_file on its own *)

SearchNames == {"environment.yml", "environment.yaml", "conda-project.yml"}

\* the options tuples: the names in every order, without repetition
SearchOptions ==
    { o \in UNION { [1..n -> SearchNames] : n \in 0..Cardinality(SearchNames) } : IsInjective(o) }

\* the directory as the caller names it: absolute, relative to the working
\* directory, through a "..", and another directory
SearchDirectories ==
    { <<"/", "proj">>, <<".">>, <<"sub", "..">>, <<"/", "proj", "sub">> }

\* /proj holds the files named, /proj/sub holds environment.yml
Listing(names) ==
    [p \in { join(cwd, <<n>>) : n \in names }
           \cup { join(cwd, <<"sub">>), join(cwd, <<"sub", "environment.yml">>) } |->
        IF p = join(cwd, <<"sub">>) THEN Dir ELSE File(0, 0)]

FindFileInit ==
    /\ \E names \in SUBSET SearchNames : fs = Listing(names)
    /\ writes = 0
    /\ pc = "new"
    /\ project = NoProject
    /\ last = NoCall
    /\ UtilsIdle

\* one call of find_file(directory, options)
Search(directory, options) ==
    /\ LET r == find_file(fs, directory, options) IN
          search' = [directory |-> directory, options |-> options,
                     ret |-> r.ret, error |-> r.error]
    /\ UNCHANGED <<project_vars, spinner, environ, blocks, outcome>>

FindFileNext ==
    \E directory \in SearchDirectories, options \in SearchOptions : Search(directory, options)

FindFileSpec == FindFileInit /\ [][FindFileNext]_vars

----------------------------------------------------------------------------
(* conda_project/utils.py: env_variable *)
(* "with env_variable(key, value): body" runs the generator up to its      *)
(* yield on entry.  When the body returns the generator is resumed after   *)
(* the yield; when the body raises the exception is thrown into the        *)
(* generator at the yield, which has no try around it, so the generator    *)
(* ends there and the exception goes on to the caller.                     *)

EnvKeys == {"CONDARC", "CONDA_PKGS_DIRS"}

\* values of a variable; the empty string is a value a variable can be set to
EnvValues == {"", "a", "b"}

\* Python's None, which is no value of a variable
None == "None"

\* os.environ.get(key, None)
environ_get(e, key) == IF key \in DOMAIN e THEN e[key] ELSE None

\* os.environ[key] = value
environ_set(e, key, value) ==
    [k \in (DOMAIN e) \cup {key} |-> IF k = key THEN value ELSE e[k]]

\* os.environ.pop(key, None)
environ_pop(e, key) == [k \in (DOMAIN e) \ {key} |-> e[k]]

\* the code after the yield with "if not old" for "if old is None"
env_variable_resume_if_not_old(e, block) ==
    IF block.old = None \/ block.old = ""
    THEN environ_pop(e, block.key)
    ELSE environ_set(e, block.key, block.old)

\* env_variable after the yield: the variable is removed or set back to old
env_variable_resume(e, block) ==
    IF block.old = None
    THEN environ_pop(e, block.key)
    ELSE environ_set(e, block.key, block.old)

EnvInit ==
    /\ ProjectIdle
    /\ spinner = Spinner("Installing")
    /\ search = NoSearch
    /\ \E set \in SUBSET EnvKeys : environ \in [set -> EnvValues]
    /\ blocks = <<>>
    /\ outcome = NoExit

\* env_variable up to the yield: old is read, the variable is set; before is
\* the environment at entry, kept to compare with
EnvEnter(key, value) ==
    /\ Len(blocks) < MaxDepth
    /\ blocks' = Append(blocks, [key |-> key, value |-> value,
                                 old |-> environ_get(environ, key), before |-> environ])
    /\ environ' = environ_set(environ, key, value)
    /\ outcome' = NoExit
    /\ UNCHANGED <<project_vars, spinner, search>>

\* the body of the innermost block returns: the generator runs on after the yield
EnvExitReturned ==
    /\ blocks # <<>>
    /\ LET block == blocks[Len(blocks)] IN
          /\ environ' = env_variable_resume(environ, block)
          /\ outcome' = [how |-> "returned", key |-> block.key, before |-> block.before]
    /\ blocks' = SubSeq(blocks, 1, Len(blocks) - 1)
    /\ UNCHANGED <<project_vars, spinner, search>>

\* the body of the innermost block raises: the generator ends at the yield
EnvExitRaised ==
    /\ blocks # <<>>
    /\ LET block == blocks[Len(blocks)] IN
          outcome' = [how |-> "raised", key |-> block.key, before |-> block.before]
    /\ blocks' = SubSeq(blocks, 1, Len(blocks) - 1)
    /\ UNCHANGED <<environ, project_vars, spinner, search>>

EnvNext ==
    \/ \E key \in EnvKeys, value \in EnvValues : EnvEnter(key, value)
    \/ EnvExitReturned
    \/ EnvExitRaised

EnvSpec == EnvInit /\ [][EnvNext]_vars

----------------------------------------------------------------------------
(* What the project directory held when the project was constructed.  No    *)
(* operation creates or removes an environment file or a manifest, so the  *)
(* directory answers the same in every state.                              *)

ProjectDir == <<"/", "proj">>
EnvironmentYml == <<"/", "proj", "environment.yml">>
EnvironmentYaml == <<"/", "proj", "environment.yaml">>
ProjectYml == <<"/", "proj", "conda-project.yml">>
ProjectYaml == <<"/", "proj", "conda-project.yaml">>

HasNoManifest == ProjectYml \notin DOMAIN fs /\ ProjectYaml \notin DOMAIN fs
Constructed == pc # "new"

\* the manifest of a directory that holds exactly one manifest file
OneManifest ==
    IF ProjectYml \in DOMAIN fs /\ ProjectYaml \notin DOMAIN fs THEN fs[ProjectYml].data
    ELSE IF ProjectYaml \in DOMAIN fs /\ ProjectYml \notin DOMAIN fs THEN fs[ProjectYaml].data
    ELSE <<>>

\* C1: a directory with exactly one of environment.yml / environment.yaml and
\* no manifest constructs a project with exactly one environment, named
\* "default", whose sources are that one file, and it is default_environment.
C1_SingleEnvironmentFile ==
    \A file \in {EnvironmentYml, EnvironmentYaml} :
        (/\ Constructed
         /\ HasNoManifest
         /\ {EnvironmentYml, EnvironmentYaml} \cap DOMAIN fs = {file})
        => /\ pc = "ready"
           /\ Len(environments(project)) = 1
           /\ environments(project)[1].name = "default"
           /\ environments(project)[1].sources = <<file>>
           /\ default_environment(project) = environments(project)[1]
           /\ project.environment_file = file

C1_Witness ==
    /\ pc = "ready"
    /\ HasNoManifest
    /\ {EnvironmentYml, EnvironmentYaml} \cap DOMAIN fs = {EnvironmentYaml}
    /\ default_environment(project).sources = <<EnvironmentYaml>>

\* C2: a directory with both environment.yml and environment.yaml (and no
\* manifest) fails to construct: the error lists both paths, there is no
\* project and neither file is chosen.
C2_BothFilesAmbiguous ==
    (/\ Constructed
     /\ HasNoManifest
     /\ {EnvironmentYml, EnvironmentYaml} \subseteq DOMAIN fs)
    => /\ pc = "failed"
       /\ project = NoProject
       /\ last.error.paths = <<EnvironmentYml, EnvironmentYaml>>

\* C3: a directory with no manifest and neither environment file fails to
\* construct with the error "No Conda environment.yml or environment.yaml file
\* was found in <directory>", and there is no project.
C3_NothingFound ==
    (/\ Constructed
     /\ HasNoManifest
     /\ {EnvironmentYml, EnvironmentYaml} \cap DOMAIN fs = {})
    => /\ pc = "failed"
       /\ project = NoProject
       /\ last.op = "init"
       /\ last.error = CondaProjectError(
              "No Conda environment.yml or environment.yaml file was found in",
              <<ProjectDir>>)

C3_Witness ==
    /\ pc = "failed"
    /\ HasNoManifest
    /\ {EnvironmentYml, EnvironmentYaml} \cap DOMAIN fs = {}
    /\ last.error.type = "CondaProjectError"

----------------------------------------------------------------------------
(* The paths of an environment, spelt out from its name *)

PrefixOf(name) == <<"/", "proj", "envs", name>>
MarkerOf(name) == <<"/", "proj", "envs", name, "conda-meta", "history">>
LockfileOf(name) == <<"/", "proj", name \o ".conda-lock.yml">>

\* nothing at or below root differs between file systems f and g
SameTree(f, g, root) ==
    \A p \in (DOMAIN f) \cup (DOMAIN g) :
        IsUnder(p, root) => (p \in DOMAIN f /\ p \in DOMAIN g /\ f[p] = g[p])

\* the last call resolved its environment argument
Resolved(call) == call.environment # NoEnv

\* C6: prepare runs the environment-creation tool if and only if
\* prefix/conda-meta/history does not exist or force is set; when the marker
\* exists and force is not set it returns the prefix, runs nothing and leaves
\* the file system as it was.
C6_PrepareDecision ==
    [][ (last'.op = "prepare" /\ Resolved(last'))
        => LET name == last'.environment.name
               marker == MarkerOf(name)
           IN  /\ last'.invoked <=> (marker \notin DOMAIN fs \/ last'.force)
               /\ (marker \in DOMAIN fs /\ ~last'.force)
                    => /\ last'.error = NoError
                       /\ last'.ret = PrefixOf(name)
                       /\ fs' = fs
      ]_vars

C6_Witness ==
    /\ last.op = "prepare"
    /\ Resolved(last)
    /\ ~last.force
    /\ ~last.invoked
    /\ last.ret = PrefixOf(last.environment.name)
    /\ MarkerOf(last.environment.name) \in DOMAIN fs
    /\ fs[MarkerOf(last.environment.name)].mtime = 1

\* C7: after a successful prepare the marker prefix/conda-meta/history exists,
\* after a successful clean neither it nor the prefix exists, and between the
\* prepare and clean calls on an environment the marker neither appears nor
\* disappears.
C7_MarkerFollowsLastCall ==
    /\ [](( last.op = "prepare" /\ last.error = NoError)
            => MarkerOf(last.environment.name) \in DOMAIN fs)
    /\ [](( last.op = "clean" /\ last.error = NoError)
            => /\ MarkerOf(last.environment.name) \notin DOMAIN fs
               /\ \A p \in DOMAIN fs : ~IsUnder(p, PrefixOf(last.environment.name)))
    /\ [][ \A i \in 1..Len(environments(project)) :
            LET name == environments(project)[i].name IN
                \/ /\ last'.op \in {"prepare", "clean"}
                   /\ last'.invoked
                   /\ last'.environment.name = name
                \/ (MarkerOf(name) \in DOMAIN fs) <=> (MarkerOf(name) \in DOMAIN fs')
      ]_vars

\* a clean that succeeded after the only writes so far were conda env create runs
C7_Witness ==
    /\ last.op = "clean"
    /\ last.error = NoError
    /\ writes = MaxWrites
    /\ \A p \in DOMAIN fs : fs[p].kind = "file" => fs[p].mtime = 0
    /\ \A p \in DOMAIN fs : ~IsUnder(p, PrefixOf(last.environment.name))

----------------------------------------------------------------------------
(* C13 *)

IsFrameLine(w) == \E n \in 0..(Len(SpinnerFrames) - 1) : w = FrameLine(spinner.prefix, n)

IsDoneLine(w) == w = DoneLine(spinner.prefix)

\* C13: when the with block of a Spinner has been left, whether its body
\* returned or raised, the event is set and the thread has terminated; the
\* done line is written only once the thread has terminated, it is written
\* once, and no frame is written after it.
C13_SpinnerStopsBeforeDone ==
    LET out == spinner.stdout
    IN  /\ spinner.main = "exited" =>
            /\ spinner.event
            /\ spinner.thread = "terminated"
            /\ Len(out) >= 3
            /\ SubSeq(out, Len(out) - 2, Len(out)) = <<"CR", "ESC[K", DoneLine(spinner.prefix)>>
        /\ \A i \in 1..Len(out) :
              IsDoneLine(out[i]) =>
                  /\ spinner.thread = "terminated"
                  /\ \A j \in (i + 1)..Len(out) : ~IsFrameLine(out[j]) /\ ~IsDoneLine(out[j])
                  /\ i = Len(out)

\* the body raised, the thread had drawn two frames, and the with block was left
C13_Witness ==
    /\ spinner.main = "exited"
    /\ spinner.raised
    /\ spinner.stdout = <<"CR", "ESC[K", "Installing: f1 ", "CR", "ESC[K", "Installing: f2 ",
                          "CR", "ESC[K", "Installing: done\n">>

----------------------------------------------------------------------------
(* C14 *)

\* the options that name a file of the directory searched, in the order of
\* the options tuple, as absolute paths
Present(call) ==
    LET there == abspath(call.directory)
        here(n) == Append(there, n) \in DOMAIN fs
        names == SelectSeq(call.options, here)
    IN  [i \in 1..Len(names) |-> Append(there, names[i])]

\* C14: find_file returns None when no option exists in the directory, the
\* resolved path of the file when exactly one exists, and raises
\* CondaProjectError listing every found path in the order of the options
\* tuple when two or more exist.
C14_FindFile ==
    search # NoSearch =>
        LET present == Present(search)
        IN  /\ Len(present) = 0 => (search.ret = NoPath /\ search.error = NoError)
            /\ Len(present) = 1 => (search.ret = present[1] /\ search.error = NoError)
            /\ Len(present) >= 2 =>
                  /\ search.error.type = "CondaProjectError"
                  /\ search.error.paths = present
                  /\ search.ret = NoPath

\* three options given against the alphabet, two of them found through a ".."
C14_Witness ==
    /\ search.directory = <<"sub", "..">>
    /\ search.options = <<"environment.yml", "conda-project.yml", "environment.yaml">>
    /\ search.error.type = "CondaProjectError"
    /\ search.error.paths = << <<"/", "proj", "environment.yml">>,
                               <<"/", "proj", "environment.yaml">> >>

----------------------------------------------------------------------------
(* C15, C16 *)
(* outcome is set when a block is left and reset when one is entered, so   *)
(* outcome.how = "returned" or "raised" holds in the state right after the *)
(* exit, and outcome = NoExit with a block open right after an entry.      *)

\* variable key is in e as it is in before: set to the same value, or absent in both
SameVariable(e, before, key) ==
    /\ key \in DOMAIN e <=> key \in DOMAIN before
    /\ key \in DOMAIN e => e[key] = before[key]

\* C15: inside an env_variable(key, value) block os.environ[key] is value, and
\* when the block is left normally os.environ[key] is as it was before the
\* block was entered, the previous value or absent, nested blocks on the same
\* key included.
C15_RestoredOnNormalExit ==
    /\ (blocks # <<>> /\ outcome = NoExit)
          => LET block == blocks[Len(blocks)]
             IN  block.key \in DOMAIN environ /\ environ[block.key] = block.value
    /\ outcome.how = "returned" => SameVariable(environ, outcome.before, outcome.key)

\* the inner of two blocks on the same key was left normally: the variable,
\* which was the empty string at the start, is back at the outer block's value
C15_Witness ==
    /\ outcome.how = "returned"
    /\ Len(blocks) = 1
    /\ blocks[1].key = "CONDARC" /\ outcome.key = "CONDARC"
    /\ blocks[1].old = ""
    /\ blocks[1].value = "a"
    /\ environ["CONDARC"] = "a"

\* C16: when the body of an env_variable(key, value) block raises,
\* os.environ[key] is as it was before the block was entered by the time the
\* exception reaches the caller.
C16_RestoredOnException ==
    outcome.how = "raised" => SameVariable(environ, outcome.before, outcome.key)

====
